---- MODULE Spec2Model ----
(***************************************************************************)
(* blacspp: the typed broadcast dispatch layer                             *)
(* (include/blacspp/broadcast.hpp).                                        *)
(*                                                                         *)
(* Two processes of one BLACS grid call the send and receive entry points. *)
(* Each entry point converts its enumerated parameters to tokens and       *)
(* forwards once to the entry point of the same name in blacspp::wrappers. *)
(* The library below that call is modelled as a mocked transport: a send   *)
(* packs the selected cells of the caller's column-major buffer into a     *)
(* message, a receive unpacks the head message into the selected cells.    *)
(*                                                                         *)
(* A behaviour fixes the call parameters (element type, scope, topology,   *)
(* triangle, diagonal, rows, cols, one leading dimension per process) and  *)
(* the number of calls it makes in its initial state; the processes then   *)
(* choose entry points freely.                                             *)
(***************************************************************************)
EXTENDS Integers, Sequences, FiniteSets, TLC

\* ------------------------------------------------------------------ bounds
MaxDim == 2
MaxCalls == 2
MaxCallsGrid == 3
MaxInFlight == 1

Procs == {0, 1}
Other(p) == 1 - p
\* Every buffer holds a full MaxDim x MaxDim matrix, tightly packed.
BufLen == MaxDim * MaxDim
Dims == 1..MaxDim
LeadDims == 1..(MaxDim + 1)
Contexts == {0, 1}
\* What an out-of-bounds read may yield.
Junk == {-1, -2}

\* ------------------------------------------------------- enumerated types
Scope == {"All", "Row", "Column"}
Topology == {"Default", "IncreasingRing"}
Triangle == {"Upper", "Lower"}
Diagonal == {"Unit", "NonUnit"}
ElemTypes == {"int", "float", "double", "complex<float>", "complex<double>"}

\* detail::type_string, one overload per enumeration.
type_string_Scope(scope) ==
  IF scope = "All" THEN "A" ELSE IF scope = "Row" THEN "R" ELSE "C"

type_string_Topology(top) ==
  IF top = "IncreasingRing" THEN "I" ELSE " "

type_string_Triangle(uplo) ==
  IF uplo = "Upper" THEN "U" ELSE "L"

type_string_Diagonal(diag) ==
  IF diag = "Unit" THEN "U" ELSE "N"

\* The tokens the library documents for each parameter.
LibraryTokens(kind) ==
  CASE kind = "Scope" -> {"A", "R", "C"}
    [] kind = "Topology" -> {" ", "I"}
    [] kind = "Triangle" -> {"U", "L"}
    [] kind = "Diagonal" -> {"U", "N"}

VARIABLES grid, elem, args, lda, buf, chan, pc, last, log, ctxlog, budget

vars == <<grid, elem, args, lda, buf, chan, pc, last, log, ctxlog, budget>>

\* ------------------------------------------------------- buffers and grid
\* Grid::context()
context(g) == g.context

\* The address of process p's buffer, the typed pointer to it (T* A) and the
\* container that owns it.
BaseAddr(p) == 16 * (p + 1)
Pointer(p) == [addr |-> BaseAddr(p), T |-> elem]
Container(p) == [data |-> Pointer(p), size |-> BufLen]
data(A) == A.data
size(A) == A.size

\* Initial contents: every cell of every buffer holds a value of its own.
Stamp(p, k) == 10 * (p + 1) + k
InitBuf(p) == [k \in 1..BufLen |-> Stamp(p, k)]

\* ------------------------------------------------- the dispatch layer
\* A call of blacspp::wrappers: the entry point and its arguments in order.
NoToken == ""

WrapperCall(fn, ICONTXT, SCOPE, TOP, UPLO, DIAG, M, N, A, LDA) ==
  [fn |-> fn, ICONTXT |-> ICONTXT, SCOPE |-> SCOPE, TOP |-> TOP, UPLO |-> UPLO,
   DIAG |-> DIAG, M |-> M, N |-> N, A |-> A, LDA |-> LDA]

\* Each entry point below is the sequence of wrappers:: calls its body makes.

\* gebs2d with rows and cols exchanged in the forwarded call.
gebs2d_swapMN(g, scope, top, M, N, A, LDA) ==
  LET SCOPE == type_string_Scope(scope)
      TOP == type_string_Topology(top)
  IN  << WrapperCall("gebs2d", context(g), SCOPE, TOP, NoToken, NoToken, N, M, A, LDA) >>

\* gebs2d( grid, scope, top, M, N, const T* A, LDA )
gebs2d(g, scope, top, M, N, A, LDA) ==
  LET SCOPE == type_string_Scope(scope)
      TOP == type_string_Topology(top)
  IN  << WrapperCall("gebs2d", context(g), SCOPE, TOP, NoToken, NoToken, M, N, A, LDA) >>

\* The container overload of gebs2d forwarding context 0 instead of the grid's.
gebs2d_data_defaultContext(g, scope, top, M, N, A, LDA) ==
  gebs2d([context |-> 0], scope, top, M, N, data(A), LDA)

\* gebs2d( grid, scope, top, M, N, const Container& A, LDA )
gebs2d_data(g, scope, top, M, N, A, LDA) ==
  gebs2d(g, scope, top, M, N, data(A), LDA)

\* The size overload of gebs2d describing a 1 x size row instead of a column.
gebs2d_size_rowVector(g, scope, top, A) ==
  gebs2d_data(g, scope, top, 1, size(A), A, size(A))

\* gebs2d( grid, scope, top, const Container& A )
gebs2d_size(g, scope, top, A) ==
  gebs2d_data(g, scope, top, size(A), 1, A, size(A))

\* trbs2d converting uplo a second time where diag belongs.
trbs2d_diagFromUplo(g, scope, top, uplo, diag, M, N, A, LDA) ==
  LET SCOPE == type_string_Scope(scope)
      TOP == type_string_Topology(top)
      UPLO == type_string_Triangle(uplo)
      DIAG == type_string_Triangle(uplo)
  IN  << WrapperCall("trbs2d", context(g), SCOPE, TOP, UPLO, DIAG, M, N, A, LDA) >>

\* trbs2d( grid, scope, top, uplo, diag, M, N, const T* A, LDA )
trbs2d(g, scope, top, uplo, diag, M, N, A, LDA) ==
  LET SCOPE == type_string_Scope(scope)
      TOP == type_string_Topology(top)
      UPLO == type_string_Triangle(uplo)
      DIAG == type_string_Diagonal(diag)
  IN  << WrapperCall("trbs2d", context(g), SCOPE, TOP, UPLO, DIAG, M, N, A, LDA) >>

\* The container overload of trbs2d with an empty body.
trbs2d_data_noForward(g, scope, top, uplo, diag, M, N, A, LDA) == << >>

\* trbs2d( grid, scope, top, uplo, diag, M, N, const Container& A, LDA )
trbs2d_data(g, scope, top, uplo, diag, M, N, A, LDA) ==
  trbs2d(g, scope, top, uplo, diag, M, N, data(A), LDA)

\* gebr2d forwarding rows as the leading dimension.
gebr2d_ldaIsM(g, scope, top, M, N, A, LDA) ==
  LET SCOPE == type_string_Scope(scope)
      TOP == type_string_Topology(top)
  IN  << WrapperCall("gebr2d", context(g), SCOPE, TOP, NoToken, NoToken, M, N, A, M) >>

\* gebr2d( grid, scope, top, M, N, T* A, LDA )
gebr2d(g, scope, top, M, N, A, LDA) ==
  LET SCOPE == type_string_Scope(scope)
      TOP == type_string_Topology(top)
  IN  << WrapperCall("gebr2d", context(g), SCOPE, TOP, NoToken, NoToken, M, N, A, LDA) >>

\* The container overload of gebr2d forwarding to the send.
gebr2d_data_sendKind(g, scope, top, M, N, A, LDA) ==
  gebs2d(g, scope, top, M, N, data(A), LDA)

\* gebr2d( grid, scope, top, M, N, Container& A, LDA )
gebr2d_data(g, scope, top, M, N, A, LDA) ==
  gebr2d(g, scope, top, M, N, data(A), LDA)

\* gebr2d( grid, scope, top, Container& A )
gebr2d_size(g, scope, top, A) ==
  gebr2d_data(g, scope, top, size(A), 1, A, size(A))

\* trbr2d with the UPLO and DIAG tokens exchanged in the forwarded call.
trbr2d_swapTokens(g, scope, top, uplo, diag, M, N, A, LDA) ==
  LET SCOPE == type_string_Scope(scope)
      TOP == type_string_Topology(top)
      UPLO == type_string_Triangle(uplo)
      DIAG == type_string_Diagonal(diag)
  IN  << WrapperCall("trbr2d", context(g), SCOPE, TOP, DIAG, UPLO, M, N, A, LDA) >>

\* trbr2d( grid, scope, top, uplo, diag, M, N, T* A, LDA )
trbr2d(g, scope, top, uplo, diag, M, N, A, LDA) ==
  LET SCOPE == type_string_Scope(scope)
      TOP == type_string_Topology(top)
      UPLO == type_string_Triangle(uplo)
      DIAG == type_string_Diagonal(diag)
  IN  << WrapperCall("trbr2d", context(g), SCOPE, TOP, UPLO, DIAG, M, N, A, LDA) >>

\* The container overload of trbr2d refusing leadingDim < rows.
trbr2d_data_validating(g, scope, top, uplo, diag, M, N, A, LDA) ==
  IF LDA < M THEN << >> ELSE trbr2d(g, scope, top, uplo, diag, M, N, data(A), LDA)

\* trbr2d( grid, scope, top, uplo, diag, M, N, Container& A, LDA )
trbr2d_data(g, scope, top, uplo, diag, M, N, A, LDA) ==
  trbr2d(g, scope, top, uplo, diag, M, N, data(A), LDA)

\* ------------------------------------------------- the mocked library
SendFns == {"gebs2d", "trbs2d"}
RecvFns == {"gebr2d", "trbr2d"}
TrFns == {"trbs2d", "trbr2d"}

\* The cells <<i, j>> of an M x N matrix in column-major order.
CellSeq(M, N) == [k \in 1..(M * N) |-> << (k - 1) % M, (k - 1) \div M >>]

\* Whether cell (i, j) belongs to the trapezoid UPLO/DIAG of an M x N matrix:
\* the lower trapezoid is anchored at the top-left corner when M > N and the
\* upper one when M <= N; a unit diagonal is not communicated.
InHalf(UPLO, DIAG, M, N, i, j) ==
  LET d == IF DIAG = "U" THEN 1 ELSE 0
  IN  IF UPLO = "U"
      THEN IF M <= N THEN j >= i + d ELSE i + d <= j + (M - N)
      ELSE IF M <= N THEN j + d <= i + (N - M) ELSE i >= j + d

\* The cells a call communicates, in the order they are packed.
Selected(c) ==
  IF c.fn \in TrFns
  THEN SelectSeq(CellSeq(c.M, c.N),
                 LAMBDA x : InHalf(c.UPLO, c.DIAG, c.M, c.N, x[1], x[2]))
  ELSE CellSeq(c.M, c.N)

\* The position in the buffer of a cell, from the leading dimension.
Offset(c, cell) == cell[1] + cell[2] * c.LDA + 1

InBounds(p, c, cell) ==
  c.A.addr = BaseAddr(p) /\ Offset(c, cell) \in 1..BufLen

\* The shape constraint: LDA >= M and every communicated cell in the buffer.
Valid(p, c) ==
  /\ c.LDA >= c.M
  /\ \A k \in 1..Len(Selected(c)) : InBounds(p, c, Selected(c)[k])

\* A send packs the selected cells; a read outside the buffer yields g.
Pack(p, c, g) ==
  LET cs == Selected(c)
  IN  [k \in 1..Len(cs) |->
         IF InBounds(p, c, cs[k]) THEN buf[p][Offset(c, cs[k])] ELSE g]

MinOf(S) == CHOOSE x \in S : \A y \in S : x <= y
MaxOf(S) == CHOOSE x \in S : \A y \in S : x >= y

\* A receive unpacks the packed elements d into the selected cells; when two
\* cells share a position (LDA < M) either write may be the one that stays.
Unpack(p, c, d, w) ==
  LET cs == Selected(c)
      hits(k) == {m \in 1..Len(d) : Offset(c, cs[m]) = k}
  IN  [k \in 1..BufLen |->
         IF c.A.addr = BaseAddr(p) /\ hits(k) # {}
         THEN d[IF w = "first" THEN MinOf(hits(k)) ELSE MaxOf(hits(k))]
         ELSE buf[p][k]]

\* A message in flight: what the library matches on, the packed elements, and
\* (for the properties) the entry point that sent it and the sender's buffer
\* at that time.
Message(p, entry, c, g) ==
  [src |-> p, ICONTXT |-> c.ICONTXT, SCOPE |-> c.SCOPE, TOP |-> c.TOP,
   T |-> c.A.T, data |-> Pack(p, c, g), entry |-> entry, mem |-> buf[p]]

Matches(m, c) ==
  m.ICONTXT = c.ICONTXT /\ m.SCOPE = c.SCOPE /\ m.TOP = c.TOP

\* What the library may do with a send: a call that breaks the shape
\* constraint is undefined, it may abort or go on with whatever it reads.
SendOutcomes(p, c) ==
  IF Valid(p, c) THEN {<<"ok", 0>>}
  ELSE {<<"error", 0>>} \cup {<<"ok", g>> : g \in Junk}

\* What the library may do with a receive of message m: more elements than
\* the receive selects is an error.
RecvOutcomes(p, c, m) ==
  IF Len(m.data) > Len(Selected(c)) THEN {<<"error", "first">>}
  ELSE IF Valid(p, c) THEN {<<"ok", "first">>}
  ELSE {<<"error", "first">>, <<"ok", "first">>, <<"ok", "last">>}

\* ------------------------------------------------------------- actions
\* What the caller of an entry point sees of the library's report: the entry
\* points return void and handle nothing, so a library abort is the caller's.
Outcome(libstatus) == IF libstatus = "error" THEN "aborted" ELSE "returned"

\* The enumerated values an entry point was given and the tokens it passed.
Tokens(c) ==
  {[kind |-> "Scope", val |-> args.scope, tok |-> c.SCOPE],
   [kind |-> "Topology", val |-> args.top, tok |-> c.TOP]}
  \cup (IF c.fn \in TrFns
        THEN {[kind |-> "Triangle", val |-> args.uplo, tok |-> c.UPLO],
              [kind |-> "Diagonal", val |-> args.diag, tok |-> c.DIAG]}
        ELSE {})

Record(p, entry, calls, msg, libstatus, done) ==
  [proc |-> p, entry |-> entry, lib |-> calls, pre |-> buf[p], msg |-> msg,
   libstatus |-> libstatus, status |-> Outcome(libstatus), done |-> done]

\* The library's part of a send: the packed cells are handed to the
\* transport, which holds at most MaxInFlight messages per receiver.
LibSend(p, entry, calls) ==
  LET c == calls[1]
      q == Other(p)
  IN  /\ Len(chan[q]) < MaxInFlight
      /\ \E o \in SendOutcomes(p, c) :
            LET m == Message(p, entry, c, o[2])
            IN  /\ chan' = IF o[1] = "ok" THEN [chan EXCEPT ![q] = Append(@, m)]
                                         ELSE chan
                /\ last' = Record(p, entry, calls,
                                  IF o[1] = "ok" THEN <<m>> ELSE <<>>,
                                  o[1], o[1] = "ok")
                /\ pc' = [pc EXCEPT ![p] = IF Outcome(o[1]) = "aborted"
                                           THEN "aborted" ELSE "ready"]
      /\ buf' = buf

\* The library's part of a receive: it blocks until the head message for
\* this process matches the call, then writes it into the buffer.
LibRecv(p, entry, calls) ==
  LET c == calls[1]
  IN  /\ chan[p] # <<>>
      /\ Matches(Head(chan[p]), c)
      /\ \E o \in RecvOutcomes(p, c, Head(chan[p])) :
            LET m == Head(chan[p])
            IN  /\ chan' = [chan EXCEPT ![p] = Tail(@)]
                /\ buf' = IF o[1] = "ok"
                          THEN [buf EXCEPT ![p] = Unpack(p, c, m.data, o[2])]
                          ELSE buf
                /\ last' = Record(p, entry, calls, <<m>>, o[1], o[1] = "ok")
                /\ pc' = [pc EXCEPT ![p] = IF Outcome(o[1]) = "aborted"
                                           THEN "aborted" ELSE "ready"]

\* Process p calls entry point `entry`, whose body makes the calls `calls`.
Enter(p, entry, calls) ==
  /\ pc[p] = "ready"
  /\ budget > 0
  /\ budget' = budget - 1
  /\ IF calls = <<>>
     THEN /\ last' = Record(p, entry, calls, <<>>, "none", FALSE)
          /\ UNCHANGED <<buf, chan, pc, log, ctxlog>>
     ELSE /\ log' = log \cup Tokens(calls[1])
          /\ ctxlog' = ctxlog \cup {<<p, entry, context(grid[p]), calls[1].ICONTXT>>}
          /\ IF calls[1].fn \in SendFns
             THEN LibSend(p, entry, calls)
             ELSE LibRecv(p, entry, calls)
  /\ UNCHANGED <<grid, elem, args, lda>>

Call_gebs2d(p) ==
  Enter(p, "gebs2d",
        gebs2d(grid[p], args.scope, args.top, args.M, args.N, Pointer(p), lda[p]))

Call_gebs2d_data(p) ==
  Enter(p, "gebs2d_data",
        gebs2d_data(grid[p], args.scope, args.top, args.M, args.N, Container(p), lda[p]))

Call_gebs2d_size(p) ==
  Enter(p, "gebs2d_size", gebs2d_size(grid[p], args.scope, args.top, Container(p)))

Call_trbs2d(p) ==
  Enter(p, "trbs2d",
        trbs2d(grid[p], args.scope, args.top, args.uplo, args.diag,
               args.M, args.N, Pointer(p), lda[p]))

Call_trbs2d_data(p) ==
  Enter(p, "trbs2d_data",
        trbs2d_data(grid[p], args.scope, args.top, args.uplo, args.diag,
                    args.M, args.N, Container(p), lda[p]))

Call_gebr2d(p) ==
  Enter(p, "gebr2d",
        gebr2d(grid[p], args.scope, args.top, args.M, args.N, Pointer(p), lda[p]))

Call_gebr2d_data(p) ==
  Enter(p, "gebr2d_data",
        gebr2d_data(grid[p], args.scope, args.top, args.M, args.N, Container(p), lda[p]))

Call_gebr2d_size(p) ==
  Enter(p, "gebr2d_size", gebr2d_size(grid[p], args.scope, args.top, Container(p)))

Call_trbr2d(p) ==
  Enter(p, "trbr2d",
        trbr2d(grid[p], args.scope, args.top, args.uplo, args.diag,
               args.M, args.N, Pointer(p), lda[p]))

Call_trbr2d_data(p) ==
  Enter(p, "trbr2d_data",
        trbr2d_data(grid[p], args.scope, args.top, args.uplo, args.diag,
                    args.M, args.N, Container(p), lda[p]))

\* ------------------------------------------------------- specifications
\* The shapes a behaviour may fix: rows, cols and each process's leading
\* dimension, including leading dimensions smaller than rows.
AllShapes ==
  {[M |-> m, N |-> n, lda |-> l] : m \in Dims, n \in Dims, l \in [Procs -> LeadDims]}

\* The shapes whose leading dimension is the same on both processes.
SameLdShapes == {sh \in AllShapes : \A p, q \in Procs : sh.lda[p] = sh.lda[q]}

\* The full square matrix, tightly packed.
SquareShape == {[M |-> MaxDim, N |-> MaxDim, lda |-> [p \in Procs |-> MaxDim]]}

InitWith(Ts, Cs, Ss, Tops, Us, Ds, Shapes, calls) ==
  /\ grid \in {[p \in Procs |-> [context |-> c]] : c \in Cs}
  /\ elem \in Ts
  /\ \E sh \in Shapes :
        /\ args \in [scope : Ss, top : Tops, uplo : Us, diag : Ds,
                      M : {sh.M}, N : {sh.N}]
        /\ lda = sh.lda
  /\ buf = [p \in Procs |-> InitBuf(p)]
  /\ chan = [p \in Procs |-> <<>>]
  /\ pc = [p \in Procs |-> "ready"]
  /\ last = [entry |-> "none"]
  /\ log = {}
  /\ ctxlog = {}
  /\ budget = calls

GeCalls(p) ==
  \/ Call_gebs2d(p)
  \/ Call_gebs2d_data(p)
  \/ Call_gebs2d_size(p)
  \/ Call_gebr2d(p)
  \/ Call_gebr2d_data(p)
  \/ Call_gebr2d_size(p)

TrCalls(p) ==
  \/ Call_trbs2d(p)
  \/ Call_trbs2d_data(p)
  \/ Call_trbr2d(p)
  \/ Call_trbr2d_data(p)

\* Every entry point, every shape, both triangles and diagonals.
Init == InitWith({"double"}, {0}, {"All"}, {"Default"}, Triangle, Diagonal, SameLdShapes, MaxCalls)
Next == \E p \in Procs : GeCalls(p) \/ TrCalls(p)
Spec == Init /\ [][Next]_vars

\* The general entry points: every element type and every shape.
InitGe == InitWith(ElemTypes, {0}, {"All"}, {"Default"}, {"Upper"}, {"NonUnit"}, AllShapes, MaxCalls)
NextGe == \E p \in Procs : GeCalls(p)
SpecGe == InitGe /\ [][NextGe]_vars

\* The triangular entry points: both triangles and diagonals, every shape.
InitTr == InitWith({"double"}, {0}, {"All"}, {"Default"}, Triangle, Diagonal, AllShapes, MaxCalls)
NextTr == \E p \in Procs : TrCalls(p)
SpecTr == InitTr /\ [][NextTr]_vars

\* Every entry point and every value of every enumeration and context.
InitEnum == InitWith({"double"}, Contexts, Scope, Topology, Triangle, Diagonal, SquareShape, MaxCalls)
SpecEnum == InitEnum /\ [][Next]_vars

\* Every entry point on either grid context, in longer sequences of calls.
InitGrid == InitWith({"double"}, Contexts, {"All"}, {"Default"}, {"Upper"}, {"NonUnit"}, SquareShape, MaxCallsGrid)
SpecGrid == InitGrid /\ [][Next]_vars

\* ------------------------------------------------------------ properties
\* What the caller of an entry point described, in the caller's own terms.
GeSendEntries == {"gebs2d", "gebs2d_data", "gebs2d_size"}
GeRecvEntries == {"gebr2d", "gebr2d_data", "gebr2d_size"}
TrSendEntries == {"trbs2d", "trbs2d_data"}
TrRecvEntries == {"trbr2d", "trbr2d_data"}
SizeEntries == {"gebs2d_size", "gebr2d_size"}
DataEntries == {"gebs2d_data", "trbs2d_data", "gebr2d_data", "trbr2d_data"}
SendEntries == GeSendEntries \cup TrSendEntries
RecvEntries == GeRecvEntries \cup TrRecvEntries

\* rows, cols and leading dimension of the region process p named in `entry`.
EntryShape(p, entry) ==
  IF entry \in SizeEntries
  THEN [M |-> BufLen, N |-> 1, LDA |-> BufLen]
  ELSE [M |-> args.M, N |-> args.N, LDA |-> lda[p]]

Pos(sh, i, j) == i + j * sh.LDA + 1

RegionFits(sh) == sh.LDA >= sh.M /\ (sh.N - 1) * sh.LDA + sh.M <= BufLen

\* Whether (i, j) lies in the half of an M x N matrix named by the enumerated
\* values uplo and diag.
InTriangle(uplo, diag, M, N, i, j) ==
  IF uplo = "Upper"
  THEN IF M <= N
       THEN (IF diag = "Unit" THEN j > i ELSE j >= i)
       ELSE (IF diag = "Unit" THEN i < j + (M - N) ELSE i <= j + (M - N))
  ELSE IF M <= N
       THEN (IF diag = "Unit" THEN j < i + (N - M) ELSE j <= i + (N - M))
       ELSE (IF diag = "Unit" THEN i > j ELSE i >= j)

\* The cells process p named in `entry`, in column-major order.
EntryCells(p, entry) ==
  LET sh == EntryShape(p, entry)
  IN  IF entry \in TrSendEntries \cup TrRecvEntries
      THEN SelectSeq(CellSeq(sh.M, sh.N),
                     LAMBDA x : InTriangle(args.uplo, args.diag, sh.M, sh.N, x[1], x[2]))
      ELSE CellSeq(sh.M, sh.N)

EntryPositions(p, entry) ==
  {Pos(EntryShape(p, entry), EntryCells(p, entry)[k][1], EntryCells(p, entry)[k][2]) :
     k \in 1..Len(EntryCells(p, entry))}

Returned == last.entry # "none" /\ last.status = "returned"

\* C1: a general receive that returns after taking the message of a general
\* send with the same rows and cols, both regions inside their buffers with
\* leadingDim >= rows, leaves the receiver's rows x cols region equal, cell
\* for cell, to the sender's region at the time of the send.
C1_Matched ==
  /\ Returned
  /\ last.entry \in GeRecvEntries
  /\ last.msg # << >>
  /\ last.msg[1].entry \in GeSendEntries
  /\ EntryShape(last.proc, last.entry).M = EntryShape(last.msg[1].src, last.msg[1].entry).M
  /\ EntryShape(last.proc, last.entry).N = EntryShape(last.msg[1].src, last.msg[1].entry).N
  /\ RegionFits(EntryShape(last.proc, last.entry))
  /\ RegionFits(EntryShape(last.msg[1].src, last.msg[1].entry))

C1_RoundTrip ==
  C1_Matched =>
    LET r == EntryShape(last.proc, last.entry)
        t == EntryShape(last.msg[1].src, last.msg[1].entry)
    IN  \A i \in 0..(r.M - 1), j \in 0..(r.N - 1) :
          buf[last.proc][Pos(r, i, j)] = last.msg[1].mem[Pos(t, i, j)]

C1_Witness ==
  /\ C1_Matched
  /\ last.entry = "gebr2d"
  /\ last.msg[1].entry = "gebs2d"
  /\ args.N > 1
  /\ lda[0] # lda[1]
  /\ elem = "complex<double>"

\* C2: a triangular receive that returns has changed no element outside the
\* half named by uplo and diag (the diagonal belongs to the half when
\* non-unit, not when unit).
C2_TriangularFrame ==
  (Returned /\ last.entry \in TrRecvEntries) =>
    \A k \in 1..BufLen :
      k \notin EntryPositions(last.proc, last.entry) => buf[last.proc][k] = last.pre[k]

C2_Witness ==
  /\ Returned
  /\ last.entry = "trbr2d"
  /\ args.M = 2 /\ args.N = 2 /\ lda[last.proc] = 2
  /\ args.uplo = "Lower" /\ args.diag = "Unit"
  /\ buf[last.proc][2] # last.pre[2]
  /\ buf[last.proc][1] = last.pre[1]

\* C3: a size-based overload makes exactly the call that the pointer
\* overload makes for rows = A.size(), cols = 1, leadingDim = A.size() on
\* A.data(), with the same grid, scope and topology.
C3_SizeOverload ==
  /\ last.entry = "gebs2d_size" =>
       last.lib = gebs2d(grid[last.proc], args.scope, args.top,
                         size(Container(last.proc)), 1,
                         data(Container(last.proc)), size(Container(last.proc)))
  /\ last.entry = "gebr2d_size" =>
       last.lib = gebr2d(grid[last.proc], args.scope, args.top,
                         size(Container(last.proc)), 1,
                         data(Container(last.proc)), size(Container(last.proc)))

C3_Witness ==
  /\ Returned
  /\ last.entry = "gebr2d_size"
  /\ last.msg # << >>
  /\ last.msg[1].entry = "gebs2d_size"
  /\ buf[last.proc] = last.msg[1].mem

\* C4: every token passed to the library is one of the library's tokens for
\* that parameter, and calls given the same enumerated value pass the same
\* token.
C4_TokenMapping ==
  /\ \A e \in log : e.tok \in LibraryTokens(e.kind)
  /\ \A e, f \in log : (e.kind = f.kind /\ e.val = f.val) => e.tok = f.tok

C4_Witness ==
  /\ last.entry = "trbr2d"
  /\ last.msg # << >>
  /\ last.msg[1].entry = "trbs2d_data"
  /\ Cardinality(log) = 4
  /\ args.scope = "Column" /\ args.top = "IncreasingRing"

\* C5: every call of an entry point makes exactly one library call, with the
\* shape it was given also when leadingDim < rows or the region leaves the
\* buffer, and ends as the library call ended: aborted if and only if the
\* library reported an error.
C5_NoValidation ==
  last.entry # "none" =>
    /\ Len(last.lib) = 1
    /\ last.lib[1].M = EntryShape(last.proc, last.entry).M
    /\ last.lib[1].N = EntryShape(last.proc, last.entry).N
    /\ last.lib[1].LDA = EntryShape(last.proc, last.entry).LDA
    /\ (last.status = "aborted") <=> (last.libstatus = "error")
    /\ (last.status = "aborted") <=> (pc[last.proc] = "aborted")

C5_Witness ==
  /\ last.entry = "trbr2d_data"
  /\ lda[last.proc] < args.M
  /\ Len(last.lib) = 1
  /\ last.libstatus = "error"
  /\ pc[last.proc] = "aborted"

\* C6: when a send entry point has returned its message is in the transport,
\* and when a receive entry point has returned every received element is in
\* the caller's buffer at its cell (for a region with leadingDim >= rows that
\* lies inside the buffer).
C6_Blocking ==
  Returned =>
    /\ last.done
    /\ last.entry \in SendEntries =>
         /\ last.msg # << >>
         /\ chan[Other(last.proc)] # << >>
         /\ chan[Other(last.proc)][Len(chan[Other(last.proc)])] = last.msg[1]
    /\ (last.entry \in RecvEntries /\ RegionFits(EntryShape(last.proc, last.entry))) =>
         /\ last.msg # << >>
         /\ \A k \in 1..Len(last.msg[1].data) :
              buf[last.proc][Pos(EntryShape(last.proc, last.entry),
                                 EntryCells(last.proc, last.entry)[k][1],
                                 EntryCells(last.proc, last.entry)[k][2])]
                = last.msg[1].data[k]

C6_Witness ==
  /\ Returned
  /\ last.entry = "trbs2d_data"
  /\ last.done
  /\ Len(last.msg[1].data) = 3
  /\ chan[Other(last.proc)] = last.msg

\* C7: the grid a call was given is unchanged afterwards, and every call
\* passed that grid's context handle to the library.
C7_GridReadOnly ==
  \A e \in ctxlog : e[3] = context(grid[e[1]]) /\ e[4] = e[3]

C7_Witness ==
  /\ context(grid[0]) = 1
  /\ \E e, f \in ctxlog :
       e[1] = 0 /\ f[1] = 0 /\ e[2] = "trbr2d_data" /\ f[2] = "gebs2d"

\* C9: every entry point calls the library entry point of its own kind and
\* direction with the rows, cols, leading dimension and buffer address it
\* was given, and a container overload makes exactly the call the pointer
\* overload makes for A.data().
KindOf(entry) ==
  IF entry \in GeSendEntries THEN "gebs2d"
  ELSE IF entry \in TrSendEntries THEN "trbs2d"
  ELSE IF entry \in GeRecvEntries THEN "gebr2d"
  ELSE "trbr2d"

PointerCall(p, entry) ==
  CASE entry = "gebs2d_data" ->
         gebs2d(grid[p], args.scope, args.top, args.M, args.N, data(Container(p)), lda[p])
    [] entry = "trbs2d_data" ->
         trbs2d(grid[p], args.scope, args.top, args.uplo, args.diag,
                args.M, args.N, data(Container(p)), lda[p])
    [] entry = "gebr2d_data" ->
         gebr2d(grid[p], args.scope, args.top, args.M, args.N, data(Container(p)), lda[p])
    [] entry = "trbr2d_data" ->
         trbr2d(grid[p], args.scope, args.top, args.uplo, args.diag,
                args.M, args.N, data(Container(p)), lda[p])

C9_Forwarding ==
  last.entry # "none" =>
    /\ \A k \in 1..Len(last.lib) :
         /\ last.lib[k].fn = KindOf(last.entry)
         /\ last.lib[k].M = EntryShape(last.proc, last.entry).M
         /\ last.lib[k].N = EntryShape(last.proc, last.entry).N
         /\ last.lib[k].LDA = EntryShape(last.proc, last.entry).LDA
         /\ last.lib[k].A.addr = BaseAddr(last.proc)
    /\ last.entry \in DataEntries => last.lib = PointerCall(last.proc, last.entry)

C9_Witness ==
  /\ Returned
  /\ last.entry = "gebr2d_data"
  /\ args.M # args.N
  /\ lda[last.proc] > args.M
  /\ last.lib[1].fn = "gebr2d"

\* C10: a general receive with leadingDim > rows that returns has changed no
\* element other than those at i + j*leadingDim for i < rows and j < cols.
C10_GeneralFrame ==
  (/\ Returned
   /\ last.entry \in {"gebr2d", "gebr2d_data"}
   /\ lda[last.proc] > args.M) =>
    \A k \in 1..BufLen :
      (\A i \in 0..(args.M - 1), j \in 0..(args.N - 1) : k # i + j * lda[last.proc] + 1)
        => buf[last.proc][k] = last.pre[k]

C10_Witness ==
  /\ Returned
  /\ last.entry = "gebr2d_data"
  /\ args.M = 1 /\ args.N = 2 /\ lda[last.proc] = 2
  /\ buf[last.proc][1] # last.pre[1]
  /\ buf[last.proc][3] # last.pre[3]
  /\ buf[last.proc][2] = last.pre[2]
  /\ buf[last.proc][4] = last.pre[4]

====
